---- MODULE Spec2Model ----
(***************************************************************************)
(* Model of src/src/app/api/posts/route.tsx: the four route handlers GET,  *)
(* POST, PUT and DELETE over the posts collection, the users collection,   *)
(* the taxonomy collections and the asset bucket.                          *)
(*                                                                         *)
(* Representation of JavaScript values:                                    *)
(*   null                 the string Null                                  *)
(*   a text form value    a TLA+ string ("" is the empty form value)       *)
(*   a tag value          a sequence of one-character strings, so that     *)
(*                        join, split and trim are computed                *)
(*   a File               a record with isFile = TRUE                      *)
(*   featuredImage        <<>> for "", a non-empty tuple for a URL         *)
(*   a post _id           a positive integer; NoId is a missing _id        *)
(***************************************************************************)
EXTENDS Integers, Sequences, FiniteSets, TLC

VARIABLES
    posts,      \* the posts collection: a set of documents, _id unique
    nextId,     \* the _id the next `new Post` gets
    assets,     \* the bucket: a set of [key, bytes], key unique
    resp,       \* the last request handled and the response it got
    inflight    \* per client, the request it has under way, step by step

vars == <<posts, nextId, assets, resp, inflight>>

----------------------------------------------------------------------------
(* Bounds *)

MaxGatePosts == 1   \* documents ever created under Spec
MaxPosts == 2       \* documents ever created under SpecEdit
MaxListPosts == 2   \* documents the store ever held under SpecList
MaxDate == 2        \* distinct publish_date instants
MaxPage == 2        \* largest page asked for
MaxLimit == 2       \* largest limit asked for
MaxRacePosts == 1   \* documents ever created under SpecRace
MaxUploadPosts == 1 \* documents ever created under SpecUpload

(* Program constants *)

DefaultPage == 1
DefaultLimit == 6

----------------------------------------------------------------------------
(* Values *)

Null == "null"
NoId == 0
NoImage == <<>>
NoFile == [isFile |-> FALSE, type |-> <<>>, bytes |-> ""]

\* JavaScript truthiness of a form value, as used by `!title`
Falsy(v) == v = Null \/ v = ""

----------------------------------------------------------------------------
(* Collections this route only reads *)

Users == {"u1"}

Categories == << [_id |-> "c1", name |-> "Science"] >>

Subcategories == << [_id |-> "s1", name |-> "Physics"] >>

Tags == << [_id |-> <<"a">>, name |-> "Alpha"],
           [_id |-> <<"b">>, name |-> "Beta"] >>

----------------------------------------------------------------------------
(* Sequence helpers *)

Range(s) == {s[i] : i \in 1..Len(s)}

Ceil(a, b) == (a + b - 1) \div b

\* Array.prototype.slice(from) / the first `n` elements
Drop(s, n) == IF n >= Len(s) THEN <<>> ELSE SubSeq(s, n + 1, Len(s))

Take(s, n) == IF n >= Len(s) THEN s ELSE SubSeq(s, 1, n)

----------------------------------------------------------------------------
(* tags.join(",").split(",").map(tag => tag.trim())  (POST 138-139, PUT   *)
(* 243-244), on tag values written as sequences of characters             *)

RECURSIVE JoinTags(_)
JoinTags(tags) ==
    IF tags = <<>> THEN <<>>
    ELSE IF Len(tags) = 1 THEN tags[1]
    ELSE tags[1] \o <<",">> \o JoinTags(Tail(tags))

\* String.prototype.split(","): always at least one piece ("" for "")
RECURSIVE SplitTags(_)
SplitTags(str) ==
    IF \A i \in 1..Len(str) : str[i] # ","
    THEN <<str>>
    ELSE LET k == CHOOSE i \in 1..Len(str) :
                      str[i] = "," /\ \A j \in 1..(i - 1) : str[j] # ","
         IN  <<SubSeq(str, 1, k - 1)>> \o SplitTags(SubSeq(str, k + 1, Len(str)))

RECURSIVE TrimLeft(_)
TrimLeft(str) ==
    IF str # <<>> /\ str[1] = " " THEN TrimLeft(Tail(str)) ELSE str

RECURSIVE TrimRight(_)
TrimRight(str) ==
    IF str # <<>> /\ str[Len(str)] = " "
    THEN TrimRight(SubSeq(str, 1, Len(str) - 1))
    ELSE str

Trim(str) == TrimRight(TrimLeft(str))

FilteredTags(tags) ==
    LET tagsString == JoinTags(tags)
        pieces == SplitTags(tagsString)
    IN  [i \in 1..Len(pieces) |-> Trim(pieces[i])]

----------------------------------------------------------------------------
(* GET: the aggregation pipeline, stage by stage (lines 24-108) *)

\* searchParams.get(name): <<>> when the parameter is absent, <<n>> when it
\* is the decimal text of n; parseInt(... || default, 10)
PageOf(q) == IF q = <<>> THEN DefaultPage ELSE q[1]

LimitOf(q) == IF q = <<>> THEN DefaultLimit ELSE q[1]

\* mutant: the pages counted from 0
SkipFromPageZero(page, limit) == page * limit

SkipOf(page, limit) == (page - 1) * limit

\* mutant: a filter that lets every status through
HasAnyStatus(doc) == doc.status \in {"published", "draft"}

\* { $match: { status: "published" } }
IsPublished(doc) == doc.status = "published"

Match(coll) == {doc \in coll : IsPublished(doc)}

\* { $sort: { publish_date: -1 } }: the orders the sort may give; documents
\* with equal publish_date come in an order the stage does not fix: the
\* next document is any one of those with the latest publish_date left
RECURSIVE SortOrders(_, _)
SortOrders(ids, dateOf) ==
    IF ids = {} THEN {<<>>}
    ELSE UNION {{<<i>> \o rest : rest \in SortOrders(ids \ {i}, dateOf)} :
                i \in {x \in ids : \A y \in ids : dateOf[x] >= dateOf[y]}}

SortStage(S) ==
    LET ids == {d._id : d \in S}
        docOf == [i \in ids |-> CHOOSE d \in S : d._id = i]
        dateOf == [i \in ids |-> docOf[i].publish_date]
    IN  {[k \in 1..Len(order) |-> docOf[order[k]]] :
            order \in SortOrders(ids, dateOf)}

\* { $lookup: { from, localField, foreignField: "_id" } } for one key
Lookup(from, key) == SelectSeq(from, LAMBDA d : d._id = key)

\* what `$x._id` and `$x.name` read when $unwind left no field x
Missing == [_id |-> Null, name |-> Null]

\* mutant: $unwind without preserveNullAndEmptyArrays
UnwindDropping(arr) == arr

\* { $unwind: { path, preserveNullAndEmptyArrays: true } } of one joined
\* array: one output per element, the document kept when there is none
Unwind(arr) == IF arr = <<>> THEN <<Missing>> ELSE arr

RECURSIVE Flatten(_)
Flatten(ss) == IF ss = <<>> THEN <<>> ELSE Head(ss) \o Flatten(Tail(ss))

JoinCategory(docs) ==
    Flatten([i \in 1..Len(docs) |->
        LET arr == Unwind(Lookup(Categories, docs[i].category))
        IN  [j \in 1..Len(arr) |-> [docs[i] EXCEPT !.category = arr[j]]]])

JoinSubcategory(docs) ==
    Flatten([i \in 1..Len(docs) |->
        LET arr == Unwind(Lookup(Subcategories, docs[i].subcategory))
        IN  [j \in 1..Len(arr) |-> [docs[i] EXCEPT !.subcategory = arr[j]]]])

\* $lookup on an array localField: the documents of `tags` whose _id is an
\* element of the array, as the tags collection yields them
LookupTags(refs) == SelectSeq(Tags, LAMBDA t : t._id \in Range(refs))

JoinTagDocs(docs) ==
    [i \in 1..Len(docs) |-> [docs[i] EXCEPT !.tags = LookupTags(docs[i].tags)]]

\* { $dateToString: { format: "%d-%m-%Y" } }: the instants of the model are
\* half days counted from 01-01-2024
DateToString(t) == <<1 + (t \div 2), 1, 2024>>

IfNull(v, d) == IF v = Null THEN d ELSE v

Project(doc) ==
    [_id |-> doc._id,
     title |-> doc.title,
     slug |-> doc.slug,
     content |-> doc.content,
     excerpt |-> doc.excerpt,
     author |-> doc.author,
     category |-> IfNull(doc.category._id, Null),
     subcategory |-> IfNull(doc.subcategory._id, Null),
     tags |-> [k \in 1..Len(doc.tags) |-> doc.tags[k]._id],
     publish_date |-> DateToString(doc.publish_date),
     categoryName |-> IfNull(doc.category.name, Null),
     subcategoryName |-> IfNull(doc.subcategory.name, Null),
     tagNames |-> [k \in 1..Len(doc.tags) |-> doc.tags[k].name],
     metaTitle |-> doc.metaTitle,
     metaDescription |-> doc.metaDescription,
     metaKeywords |-> doc.metaKeywords,
     featuredImage |-> doc.featuredImage,
     imageCredit |-> doc.imageCredit,
     status |-> doc.status,
     updated_date |-> doc.updated_date]

ProjectStage(docs) == [i \in 1..Len(docs) |-> Project(docs[i])]

\* stages 3 to 9 on the sorted documents
Pipeline(sorted, skip, limit) ==
    Take(Drop(ProjectStage(JoinTagDocs(JoinSubcategory(JoinCategory(sorted)))),
              skip),
         limit)

\* Post.aggregate(filters): the results it may give
Aggregate(coll, skip, limit) ==
    {Pipeline(sorted, skip, limit) : sorted \in SortStage(Match(coll))}

\* Post.countDocuments({ status: "published" })
CountFilter(doc) == doc.status = "published"

CountDocuments(coll) == Cardinality({doc \in coll : CountFilter(doc)})

\* mutant: Math.floor in place of Math.ceil
TotalPagesFloor(totalPosts, limit) == totalPosts \div limit

TotalPages(totalPosts, limit) == Ceil(totalPosts, limit)

\* $skip rejects a negative count and $limit a count that is not positive
PipelineRejected(skip, limit) == skip < 0 \/ limit <= 0

Response(op, req, status, message) ==
    [op |-> op, req |-> req, status |-> status, message |-> message,
     posts |-> <<>>, totalPages |-> 0]

GET(page, limit) ==
    LET req == [page |-> page, limit |-> limit]
        pg == PageOf(page)
        lm == LimitOf(limit)
        skip == SkipOf(pg, lm)
    IN  /\ IF PipelineRejected(skip, lm)
           THEN resp' = Response("GET", req, 500, "aggregate failed")
           ELSE \E result \in Aggregate(posts, skip, lm) :
                    resp' = [op |-> "GET", req |-> req, status |-> 200,
                             message |-> "",
                             posts |-> result,
                             totalPages |->
                                 TotalPages(CountDocuments(posts), lm)]
        /\ UNCHANGED <<posts, nextId, assets, inflight>>

----------------------------------------------------------------------------
(* The write handlers: shared pieces *)

MsgRequired == "Title, content, author, category, and subcategory are required"
MsgIdRequired == "ID is required"
MsgUnauthorized == "Unauthorized"
MsgUserNotFound == "User not found"
MsgPostNotFound == "Post not found"
MsgInvalidPost == "Invalid Post"
MsgCreated == "Post created successfully"
MsgUpdated == "Post updated successfully"
MsgDeleted == "Post deleted successfully"

\* mutant: the check of subcategory forgotten
MissingButSubcategory(form) ==
    \/ Falsy(form.title)
    \/ Falsy(form.content)
    \/ Falsy(form.author)
    \/ Falsy(form.category)

\* !title || !content || !author || !category || !subcategory
MissingRequired(form) ==
    \/ Falsy(form.title)
    \/ Falsy(form.content)
    \/ Falsy(form.author)
    \/ Falsy(form.category)
    \/ Falsy(form.subcategory)

\* getServerSession(authOptions): a session or none
NoSession == [present |-> FALSE, userId |-> ""]

SessionOf(userId) == [present |-> TRUE, userId |-> userId]

\* mutant: any session taken for a user of the store
AnyUserExists(session) == TRUE

\* User.findOne({ _id: user._id })
CurrentUserExists(session) == session.userId \in Users

\* mutant: a filter on a field the schema does not have, which matches
\* every document
FindFirst(coll, id) == IF coll = {} THEN {} ELSE {CHOOSE doc \in coll : TRUE}

\* Post.findOne({ _id: id }): the matching documents (none or one)
FindOne(coll, id) == {doc \in coll : doc._id = id}

\* file.type.split("/").pop()
ExtOf(file) == file.type[Len(file.type)]

\* `the-educative/blog/post-${n}.${ext}`
FileName(n, ext) == <<"the-educative/blog/post-", n, ".", ext>>

\* the path of the object instead of its download URL
UploadPath(key) == key

\* getDownloadURL(uploadTask.snapshot.ref)
DownloadURL(key) == <<"https://storage/">> \o key

\* the upload kept beside what the bucket already holds at that key
UploadedBeside(bucket, key, file) ==
    bucket \cup {[key |-> key, bytes |-> file.bytes]}

\* uploadBytesResumable(ref(bucket, fileName), file), completed
Uploaded(bucket, key, file) ==
    {a \in bucket : a.key # key} \cup {[key |-> key, bytes |-> file.bytes]}

\* new Post({ ... }) (lines 172-187); publish_date is what the schema gives
NewPost(id, form, filteredTags, date) ==
    [_id |-> id,
     title |-> form.title,
     slug |-> form.slug,
     content |-> form.content,
     excerpt |-> form.excerpt,
     author |-> form.author,
     category |-> form.category,
     subcategory |-> form.subcategory,
     tags |-> filteredTags,
     metaTitle |-> form.metaTitle,
     metaDescription |-> form.metaDescription,
     metaKeywords |-> form.metaKeywords,
     featuredImage |-> NoImage,
     imageCredit |-> form.imageCredit,
     status |-> form.status,
     publish_date |-> date,
     updated_date |-> Null]

\* mutant: a patch, which keeps the stored excerpt when none is supplied
OverwritePatching(post, form, filteredTags) ==
    [post EXCEPT
        !.title = form.title,
        !.content = form.content,
        !.excerpt = IF Falsy(form.excerpt) THEN post.excerpt ELSE form.excerpt,
        !.author = form.author,
        !.category = form.category,
        !.subcategory = form.subcategory,
        !.tags = filteredTags,
        !.metaTitle = form.metaTitle,
        !.metaDescription = form.metaDescription,
        !.metaKeywords = form.metaKeywords,
        !.imageCredit = form.imageCredit,
        !.status = form.status]

\* post.title = title; ... post.status = status (lines 285-296)
Overwrite(post, form, filteredTags) ==
    [post EXCEPT
        !.title = form.title,
        !.content = form.content,
        !.excerpt = form.excerpt,
        !.author = form.author,
        !.category = form.category,
        !.subcategory = form.subcategory,
        !.tags = filteredTags,
        !.metaTitle = form.metaTitle,
        !.metaDescription = form.metaDescription,
        !.metaKeywords = form.metaKeywords,
        !.imageCredit = form.imageCredit,
        !.status = form.status]

\* what save() and the upload may do: complete, or throw
SaveOutcomes == {"saved", "MongooseError", "Error"}

UploadOutcomes == {"uploaded", "failed"}

\* `featuredImage instanceof File`: only then is there an upload
UploadOutcomesOf(featuredImage) ==
    IF featuredImage.isFile THEN UploadOutcomes ELSE {"none"}

\* the error swallowed and the request answered as if it had succeeded
SwallowedStatus(outcome) == 201

\* the catch blocks of POST and PUT (lines 211-222, 326-337)
CaughtStatus(outcome) == IF outcome = "MongooseError" THEN 400 ELSE 500

----------------------------------------------------------------------------
(* The early returns of the write handlers, in the order of the code: the *)
(* answer of the first check that fails, or Pass                          *)

Pass == [status |-> 0, message |-> "pass"]

Refusal(status, message) == [status |-> status, message |-> message]

\* the session taken as proof enough, the user never looked up
AuthChecksSessionOnly(session) ==
    IF ~session.present THEN Refusal(401, MsgUnauthorized) ELSE Pass

\* lines 153-171, 258-276, 353-371
AuthChecks(session) ==
    IF ~session.present THEN Refusal(401, MsgUnauthorized)
    ELSE IF ~CurrentUserExists(session) THEN Refusal(404, MsgUserNotFound)
    ELSE Pass

\* lines 143-171
PostChecks(req) ==
    IF MissingRequired(req.form) THEN Refusal(400, MsgRequired)
    ELSE AuthChecks(req.session)

\* mutant: the target looked up before the caller is authorized
PutChecksTargetFirst(req, coll) ==
    IF MissingRequired(req.form) THEN Refusal(400, MsgRequired)
    ELSE IF req.form._id = NoId THEN Refusal(400, MsgInvalidPost)
    ELSE IF FindOne(coll, req.form._id) = {} THEN Refusal(404, MsgPostNotFound)
    ELSE AuthChecks(req.session)

\* lines 248-284 and 319-324
PutChecks(req, coll) ==
    IF MissingRequired(req.form) THEN Refusal(400, MsgRequired)
    ELSE IF AuthChecks(req.session) # Pass THEN AuthChecks(req.session)
    ELSE IF req.form._id = NoId THEN Refusal(400, MsgInvalidPost)
    ELSE IF FindOne(coll, req.form._id) = {} THEN Refusal(404, MsgPostNotFound)
    ELSE Pass

\* lines 346-371
DeleteChecks(req) ==
    IF req.id = NoId THEN Refusal(400, MsgIdRequired)
    ELSE AuthChecks(req.session)

----------------------------------------------------------------------------
(* POST (lines 122-224) *)

POST(req, dates, randoms, maxPosts) ==
    LET form == req.form
        filteredTags == FilteredTags(form.tags)
        checks == PostChecks(req)
        Answer(status, message) == Response("POST", req, status, message)
    IN  /\ UNCHANGED inflight
        /\ IF checks # Pass
           THEN /\ resp' = Answer(checks.status, checks.message)
                /\ UNCHANGED <<posts, nextId, assets>>
           ELSE /\ nextId <= maxPosts
                /\ \E date \in dates, random \in randoms,
                      up \in UploadOutcomesOf(form.featuredImage),
                      save \in SaveOutcomes :
                     LET newPost == NewPost(nextId, form, filteredTags, date)
                         fileName == FileName(random, ExtOf(form.featuredImage))
                         withImage ==
                             IF form.featuredImage.isFile
                             THEN [newPost EXCEPT
                                      !.featuredImage = DownloadURL(fileName)]
                             ELSE newPost
                     IN  IF up = "failed"
                         THEN /\ resp' = Answer(500, "upload failed")
                              /\ UNCHANGED <<posts, nextId, assets>>
                         ELSE /\ assets' =
                                    IF form.featuredImage.isFile
                                    THEN Uploaded(assets, fileName,
                                                  form.featuredImage)
                                    ELSE assets
                              /\ IF save = "saved"
                                 THEN /\ posts' = posts \cup {withImage}
                                      /\ nextId' = nextId + 1
                                      /\ resp' = Answer(201, MsgCreated)
                                 ELSE /\ resp' = Answer(CaughtStatus(save),
                                                        "save failed")
                                      /\ UNCHANGED <<posts, nextId>>

----------------------------------------------------------------------------
(* PUT (lines 226-339) *)

PUT(req) ==
    LET form == req.form
        id == form._id
        filteredTags == FilteredTags(form.tags)
        checks == PutChecks(req, posts)
        Answer(status, message) == Response("PUT", req, status, message)
    IN  /\ UNCHANGED inflight
        /\ IF checks # Pass
           THEN /\ resp' = Answer(checks.status, checks.message)
                /\ UNCHANGED <<posts, nextId, assets>>
           ELSE \E found \in FindOne(posts, id),
                   up \in UploadOutcomesOf(form.featuredImage),
                   save \in SaveOutcomes :
                  LET post == Overwrite(found, form, filteredTags)
                      fileName == FileName(id, ExtOf(form.featuredImage))
                      withImage ==
                          IF form.featuredImage.isFile
                          THEN [post EXCEPT
                                   !.featuredImage = DownloadURL(fileName)]
                          ELSE post
                  IN  IF up = "failed"
                      THEN /\ resp' = Answer(500, "upload failed")
                           /\ UNCHANGED <<posts, nextId, assets>>
                      ELSE /\ assets' =
                                 IF form.featuredImage.isFile
                                 THEN Uploaded(assets, fileName,
                                               form.featuredImage)
                                 ELSE assets
                           /\ UNCHANGED nextId
                           /\ IF save = "saved"
                              THEN /\ posts' = (posts \ {found}) \cup {withImage}
                                   /\ resp' = Answer(200, MsgUpdated)
                              ELSE /\ resp' = Answer(CaughtStatus(save),
                                                     "save failed")
                                   /\ UNCHANGED posts

----------------------------------------------------------------------------
(* DELETE (lines 341-392) *)

\* mutant: the document found but not removed
FoundAndKept(coll, id) == coll

\* Post.findOneAndDelete({ _id: id }): the collection afterwards
FindOneAndDelete(coll, id) == coll \ FindOne(coll, id)

DELETE(req) ==
    LET id == req.id
        checks == DeleteChecks(req)
        Answer(status, message) == Response("DELETE", req, status, message)
    IN  /\ UNCHANGED inflight
        /\ IF checks # Pass
           THEN /\ resp' = Answer(checks.status, checks.message)
                /\ UNCHANGED <<posts, nextId, assets>>
           ELSE /\ posts' = FindOneAndDelete(posts, id)
                /\ resp' = IF FindOne(posts, id) = {}
                           THEN Answer(404, MsgPostNotFound)
                           ELSE Answer(200, MsgDeleted)
                /\ UNCHANGED <<nextId, assets>>

----------------------------------------------------------------------------
(* Requests *)

PngFile == [isFile |-> TRUE, type |-> <<"image", "png">>, bytes |-> "b1"]

Sessions == {NoSession, SessionOf("u1"), SessionOf("u2")}

RequiredFields == {"title", "content", "author", "category", "subcategory"}

\* every field filled, each with a value of its own
FormA ==
    [_id |-> NoId, title |-> "title A", slug |-> "slug-a",
     content |-> "content A", excerpt |-> "excerpt A", author |-> "author A",
     category |-> "c1", subcategory |-> "s1",
     tags |-> << <<"a">>, <<" ", "b", ",", "a", " ">> >>,
     metaTitle |-> "meta title A", metaDescription |-> "meta description A",
     metaKeywords |-> "meta keywords A", featuredImage |-> NoFile,
     status |-> "published", imageCredit |-> "credit A"]

\* the required fields filled, every optional field empty or not supplied
FormE ==
    [_id |-> NoId, title |-> "title E", slug |-> Null,
     content |-> "content E", excerpt |-> "", author |-> "author E",
     category |-> "c9", subcategory |-> "s9",
     tags |-> <<>>,
     metaTitle |-> Null, metaDescription |-> "",
     metaKeywords |-> Null, featuredImage |-> NoFile,
     status |-> "draft", imageCredit |-> ""]

\* FormA with one required field not supplied (null) or supplied empty
InvalidForms ==
    {[FormA EXCEPT ![f] = v] : f \in RequiredFields, v \in {Null, ""}}

Files == {NoFile, PngFile}

Randoms == {100000001}

PostRequests(forms, files, sessions) ==
    {[form |-> [f EXCEPT !.featuredImage = file], session |-> s] :
        f \in forms, file \in files, s \in sessions}

PutRequests(forms, files, sessions, ids) ==
    {[form |-> [f EXCEPT !._id = id, !.featuredImage = file], session |-> s] :
        f \in forms, file \in files, id \in ids, s \in sessions}

DeleteRequests(sessions, ids) ==
    {[id |-> id, session |-> s] : id \in ids, s \in sessions}

\* a missing _id, every _id a document may have, and one no document has
TargetIds(maxPosts) == {NoId} \cup (1..(maxPosts + 1))

QueryValues(max) == {<<>>} \cup {<<n>> : n \in 0..max}

\* the callers whose requests may be under way at the same time
Clients == {"k1", "k2"}

\* a client with no request under way
Idle == [op |-> "idle", pc |-> "done"]

NoneInFlight == [c \in Clients |-> Idle]

----------------------------------------------------------------------------
(* Spec: every kind of request, valid or not, from every kind of caller,  *)
(* over a store of a few documents                                        *)

Init ==
    /\ posts = {}
    /\ nextId = 1
    /\ assets = {}
    /\ resp = Response("none", <<>>, 0, "")
    /\ inflight = NoneInFlight

GateForms == {FormA} \cup InvalidForms

Create ==
    \E req \in PostRequests(GateForms, Files, Sessions) :
        POST(req, {1}, Randoms, MaxGatePosts)

Update ==
    \E req \in PutRequests(GateForms, Files, Sessions,
                           TargetIds(MaxGatePosts)) :
        PUT(req)

Delete ==
    \E req \in DeleteRequests(Sessions, TargetIds(MaxGatePosts)) : DELETE(req)

List == GET(<<>>, <<>>)

Next == Create \/ Update \/ Delete \/ List

Spec == Init /\ [][Next]_vars

----------------------------------------------------------------------------
(* SpecEdit: an authorized caller creating, rewriting and deleting        *)
(* documents with forms that differ in every field                        *)

Editors == {SessionOf("u1")}

EditForms == {FormA, FormE}

EditCreate ==
    \E req \in PostRequests(EditForms, {NoFile}, Editors) :
        POST(req, {1}, Randoms, MaxPosts)

EditUpdate ==
    \E req \in PutRequests(EditForms, Files, Editors, TargetIds(MaxPosts)) :
        PUT(req)

EditDelete == \E req \in DeleteRequests(Editors, TargetIds(MaxPosts)) : DELETE(req)

EditList == GET(<<>>, <<>>)

NextEdit == EditCreate \/ EditUpdate \/ EditDelete \/ EditList

SpecEdit == Init /\ [][NextEdit]_vars

----------------------------------------------------------------------------
(* SpecList: paging through a store whose documents differ in status,     *)
(* publish_date and in whether their references resolve                   *)

FormPublished == [FormA EXCEPT !.tags = << <<"b">>, <<"a">> >>]

FormDraft == [FormPublished EXCEPT !.status = "draft"]

FormDangling == [FormPublished EXCEPT !.category = "c9", !.subcategory = "s9"]

ListForms == {FormPublished, FormDraft, FormDangling}

\* a published document written before category and subcategory were
\* required: both references unset
LegacyPost ==
    [NewPost(1, FormPublished, <<>>, 1) EXCEPT
        !.category = Null, !.subcategory = Null]

InitList ==
    /\ posts = {LegacyPost}
    /\ nextId = 2
    /\ assets = {}
    /\ resp = Response("none", <<>>, 0, "")
    /\ inflight = NoneInFlight

ListCreate ==
    \E req \in PostRequests(ListForms, {NoFile}, Editors) :
        POST(req, 1..MaxDate, Randoms, MaxListPosts)

ListUpdate ==
    \E req \in PutRequests(ListForms, {NoFile}, Editors, 1..MaxListPosts) :
        PUT(req)

ListDelete == \E req \in DeleteRequests(Editors, 1..MaxListPosts) : DELETE(req)

ListPage ==
    \E page \in QueryValues(MaxPage), limit \in QueryValues(MaxLimit) :
        GET(page, limit)

NextList == ListCreate \/ ListUpdate \/ ListDelete \/ ListPage

SpecList == InitList /\ [][NextList]_vars

----------------------------------------------------------------------------
(* The write handlers step by step.  Each handler is an async function:   *)
(* between two awaits another request may run.  The steps that touch the  *)
(* shared stores are the lookup (Post.findOne), the upload                 *)
(* (uploadBytesResumable, getDownloadURL) and the persist (post.save());   *)
(* what a handler holds between them is its own in-memory document.        *)
(* inflight[c] is the request of client c: its position pc, the document   *)
(* as it was read (loaded), the in-memory document (doc) and, once         *)
(* pc = "done", the response.                                              *)

\* the request goes on to save() whether it has a file or not
StartedAtPersist(op, req, loaded, doc) ==
    [op |-> op, req |-> req, pc |-> "persist",
     loaded |-> loaded, doc |-> doc, status |-> 0, message |-> ""]

\* the request has passed its checks and holds an in-memory document
Started(op, req, loaded, doc) ==
    [op |-> op, req |-> req,
     pc |-> IF req.form.featuredImage.isFile THEN "upload" ELSE "persist",
     loaded |-> loaded, doc |-> doc, status |-> 0, message |-> ""]

\* return NextResponse.json({ message }, { status })
Ended(r, status, message) ==
    [op |-> r.op, req |-> r.req, pc |-> "done",
     status |-> status, message |-> message]

\* a check failed before any document was held
Refused(op, req, checks) ==
    [op |-> op, req |-> req, pc |-> "done",
     status |-> checks.status, message |-> checks.message]

\* POST up to new Post({ ... }) (lines 122-187)
POSTBegin(c, req, dates, maxPosts) ==
    LET form == req.form
        filteredTags == FilteredTags(form.tags)
        checks == PostChecks(req)
    IN  /\ inflight[c].pc = "done"
        /\ IF checks # Pass
           THEN /\ inflight' = [inflight EXCEPT
                                   ![c] = Refused("POST", req, checks)]
                /\ UNCHANGED nextId
           ELSE /\ nextId <= maxPosts
                /\ \E date \in dates :
                     LET newPost == NewPost(nextId, form, filteredTags, date)
                     IN  inflight' = [inflight EXCEPT
                             ![c] = Started("POST", req, newPost, newPost)]
                /\ nextId' = nextId + 1
        /\ UNCHANGED <<posts, assets, resp>>

\* POST: the upload (lines 189-203)
POSTUpload(c, randoms) ==
    LET r == inflight[c]
        file == r.req.form.featuredImage
    IN  /\ r.op = "POST"
        /\ r.pc = "upload"
        /\ \E random \in randoms, up \in UploadOutcomes :
             LET fileName == FileName(random, ExtOf(file))
             IN  IF up = "failed"
                 THEN /\ inflight' = [inflight EXCEPT
                             ![c] = Ended(r, 500, "upload failed")]
                      /\ UNCHANGED assets
                 ELSE /\ assets' = Uploaded(assets, fileName, file)
                      /\ inflight' = [inflight EXCEPT
                             ![c] = [r EXCEPT
                                 !.pc = "persist",
                                 !.doc.featuredImage = DownloadURL(fileName)]]
        /\ UNCHANGED <<posts, nextId, resp>>

\* POST: await post.save() and the answer (lines 205-222)
POSTSave(c) ==
    LET r == inflight[c]
    IN  /\ r.op = "POST"
        /\ r.pc = "persist"
        /\ \E save \in SaveOutcomes :
             IF save = "saved"
             THEN /\ posts' = posts \cup {r.doc}
                  /\ inflight' = [inflight EXCEPT
                                     ![c] = Ended(r, 201, MsgCreated)]
             ELSE /\ inflight' = [inflight EXCEPT
                         ![c] = Ended(r, CaughtStatus(save), "save failed")]
                  /\ UNCHANGED posts
        /\ UNCHANGED <<nextId, assets, resp>>

\* PUT up to the overwrites of the document it found (lines 226-296)
PUTBegin(c, req) ==
    LET form == req.form
        filteredTags == FilteredTags(form.tags)
        checks == PutChecks(req, posts)
    IN  /\ inflight[c].pc = "done"
        /\ IF checks # Pass
           THEN inflight' = [inflight EXCEPT
                                ![c] = Refused("PUT", req, checks)]
           ELSE \E found \in FindOne(posts, form._id) :
                    inflight' = [inflight EXCEPT
                        ![c] = Started("PUT", req, found,
                                       Overwrite(found, form, filteredTags))]
        /\ UNCHANGED <<posts, nextId, assets, resp>>

\* PUT: the upload (lines 298-312)
PUTUpload(c) ==
    LET r == inflight[c]
        file == r.req.form.featuredImage
        fileName == FileName(r.req.form._id, ExtOf(file))
    IN  /\ r.op = "PUT"
        /\ r.pc = "upload"
        /\ \E up \in UploadOutcomes :
             IF up = "failed"
             THEN /\ inflight' = [inflight EXCEPT
                         ![c] = Ended(r, 500, "upload failed")]
                  /\ UNCHANGED assets
             ELSE /\ assets' = Uploaded(assets, fileName, file)
                  /\ inflight' = [inflight EXCEPT
                         ![c] = [r EXCEPT
                             !.pc = "persist",
                             !.doc.featuredImage = DownloadURL(fileName)]]
        /\ UNCHANGED <<posts, nextId, resp>>

\* the document save() leaves stored: of a document that was found, save()
\* sends the paths whose value is no longer the one that was read
SavedWhole(stored, loaded, doc) == doc

Saved(stored, loaded, doc) ==
    [path \in DOMAIN stored |->
        IF doc[path] # loaded[path] THEN doc[path] ELSE stored[path]]

\* the collection after save() of a document that was found: an update of
\* the stored document with that _id, and of nothing when there is none
WrittenBackOrInserted(coll, loaded, doc) ==
    (coll \ FindOne(coll, doc._id)) \cup {doc}

WrittenBack(coll, loaded, doc) ==
    {IF stored._id = doc._id THEN Saved(stored, loaded, doc) ELSE stored :
        stored \in coll}

\* PUT: await post.save() and the answer (lines 313-337); with no stored
\* document of that _id save() throws DocumentNotFoundError, a MongooseError
PUTSave(c) ==
    LET r == inflight[c]
    IN  /\ r.op = "PUT"
        /\ r.pc = "persist"
        /\ \E save \in SaveOutcomes :
             IF save = "saved"
             THEN /\ posts' = WrittenBack(posts, r.loaded, r.doc)
                  /\ inflight' = [inflight EXCEPT
                         ![c] = IF FindOne(posts, r.doc._id) = {}
                                THEN Ended(r, CaughtStatus("MongooseError"),
                                           "save failed")
                                ELSE Ended(r, 200, MsgUpdated)]
             ELSE /\ inflight' = [inflight EXCEPT
                         ![c] = Ended(r, CaughtStatus(save), "save failed")]
                  /\ UNCHANGED posts
        /\ UNCHANGED <<nextId, assets, resp>>

\* DELETE: its one step on the store is findOneAndDelete (lines 341-392)
DELETEStep(c, req) ==
    LET checks == DeleteChecks(req)
        gone == [op |-> "DELETE", req |-> req, pc |-> "done",
                 status |-> 200, message |-> MsgDeleted]
    IN  /\ inflight[c].pc = "done"
        /\ IF checks # Pass
           THEN /\ inflight' = [inflight EXCEPT
                                   ![c] = Refused("DELETE", req, checks)]
                /\ UNCHANGED posts
           ELSE IF FindOne(posts, req.id) = {}
           THEN /\ inflight' = [inflight EXCEPT
                       ![c] = Refused("DELETE", req,
                                      Refusal(404, MsgPostNotFound))]
                /\ UNCHANGED posts
           ELSE /\ posts' = FindOneAndDelete(posts, req.id)
                /\ inflight' = [inflight EXCEPT ![c] = gone]
        /\ UNCHANGED <<nextId, assets, resp>>

----------------------------------------------------------------------------
(* SpecRace: two authorized clients whose requests, none with a file,     *)
(* interleave step by step, with forms that differ in one field each      *)

FormT == [FormA EXCEPT !.title = "title T"]

FormC == [FormA EXCEPT !.content = "content C"]

RaceForms == {FormA, FormT, FormC}

RaceCreate ==
    \E c \in Clients, req \in PostRequests({FormA}, {NoFile}, Editors) :
        POSTBegin(c, req, {1}, MaxRacePosts)

RaceCreateSave == \E c \in Clients : POSTSave(c)

RaceUpdate ==
    \E c \in Clients,
       req \in PutRequests(RaceForms, {NoFile}, Editors, 1..MaxRacePosts) :
        PUTBegin(c, req)

RaceUpdateSave == \E c \in Clients : PUTSave(c)

RaceDelete ==
    \E c \in Clients, req \in DeleteRequests(Editors, 1..MaxRacePosts) :
        DELETEStep(c, req)

NextRace ==
    \/ RaceCreate \/ RaceCreateSave
    \/ RaceUpdate \/ RaceUpdateSave
    \/ RaceDelete

SpecRace == Init /\ [][NextRace]_vars

----------------------------------------------------------------------------
(* SpecUpload: two authorized clients whose requests carry files, step by *)
(* step: files of the same type with different content                    *)

PngAgain == [isFile |-> TRUE, type |-> <<"image", "png">>, bytes |-> "b2"]

UploadFiles == {NoFile, PngFile, PngAgain}

UploadCreate ==
    \E c \in Clients, req \in PostRequests({FormA}, {NoFile, PngFile}, Editors) :
        POSTBegin(c, req, {1}, MaxUploadPosts)

UploadCreateUpload == \E c \in Clients : POSTUpload(c, Randoms)

UploadCreateSave == \E c \in Clients : POSTSave(c)

UploadUpdate ==
    \E c \in Clients,
       req \in PutRequests({FormA}, UploadFiles, Editors, 1..MaxUploadPosts) :
        PUTBegin(c, req)

UploadUpdateUpload == \E c \in Clients : PUTUpload(c)

UploadUpdateSave == \E c \in Clients : PUTSave(c)

UploadDelete ==
    \E c \in Clients, req \in DeleteRequests(Editors, 1..MaxUploadPosts) :
        DELETEStep(c, req)

NextUpload ==
    \/ UploadCreate \/ UploadCreateUpload \/ UploadCreateSave
    \/ UploadUpdate \/ UploadUpdateUpload \/ UploadUpdateSave
    \/ UploadDelete

SpecUpload == Init /\ [][NextUpload]_vars

----------------------------------------------------------------------------
(* Properties of GET, under SpecList.  GET leaves the store as it is, so   *)
(* in a state whose last request was a GET the store is the one it read.   *)

Listed == resp.op = "GET" /\ resp.status = 200

AskedPage == IF resp.req.page = <<>> THEN 1 ELSE resp.req.page[1]

AskedLimit == IF resp.req.limit = <<>> THEN 6 ELSE resp.req.limit[1]

Published == {d \in posts : d.status = "published"}

StoredById(id) == CHOOSE d \in posts : d._id = id

ReturnedIds == [i \in 1..Len(resp.posts) |-> resp.posts[i]._id]

\* the orderings of the published documents, most recent publish_date first
MostRecentFirst ==
    {s \in [1..Cardinality(Published) -> Published] :
        /\ \A i, j \in 1..Len(s) : s[i] = s[j] => i = j
        /\ \A i \in 1..(Len(s) - 1) : s[i].publish_date >= s[i + 1].publish_date}

Min(a, b) == IF a <= b THEN a ELSE b

\* C1: every post a List returns is a stored post whose status is
\* published; a post of any other status is never returned.
C1_ListOnlyPublished ==
    resp.op = "GET" =>
        \A i \in 1..Len(resp.posts) :
            /\ resp.posts[i].status = "published"
            /\ \E d \in posts : d._id = resp.posts[i]._id /\ d.status = "published"

C1_Witness ==
    /\ Listed
    /\ Len(resp.posts) >= 1
    /\ \E d \in posts : d.status = "draft"

\* C2: for page >= 1 and limit >= 1, List answers 200 with the published
\* posts at the 0-indexed positions (page-1)*limit .. page*limit - 1 of the
\* published posts ordered by publish_date descending, so at most limit.
C2_ListPageSlice ==
    (resp.op = "GET" /\ AskedPage >= 1 /\ AskedLimit >= 1) =>
        /\ resp.status = 200
        /\ Len(resp.posts) <= AskedLimit
        /\ \E s \in MostRecentFirst :
              LET from == (AskedPage - 1) * AskedLimit
                  upto == Min(AskedPage * AskedLimit, Len(s))
              IN  /\ Len(resp.posts) = (IF upto > from THEN upto - from ELSE 0)
                  /\ \A i \in 1..Len(resp.posts) :
                        resp.posts[i]._id = s[from + i]._id

C2_Witness ==
    /\ Listed
    /\ AskedPage = 2
    /\ AskedLimit = 1
    /\ Len(resp.posts) = 1
    /\ \E d \in Published :
          d.publish_date > StoredById(resp.posts[1]._id).publish_date

\* C3: for page >= 1 and limit >= 1, totalPages is the ceiling of (number
\* of published posts in the store) / limit, whatever the page holds.
C3_TotalPagesIsCeiling ==
    (resp.op = "GET" /\ AskedPage >= 1 /\ AskedLimit >= 1) =>
        /\ resp.status = 200
        /\ resp.totalPages * AskedLimit >= Cardinality(Published)
        /\ (resp.totalPages - 1) * AskedLimit < Cardinality(Published)
        /\ resp.totalPages >= 0

C3_Witness ==
    /\ Listed
    /\ AskedLimit = 2
    /\ Cardinality(Published) = 1
    /\ resp.totalPages = 1
    /\ resp.posts = <<>>
    /\ \E d \in posts : d.status = "draft"

Unresolved(ref, collection) ==
    \A k \in 1..Len(collection) : collection[k]._id # ref

\* C4: a published post whose category (subcategory) reference is unset or
\* resolves to no Category (Subcategory) is listed like any other, with
\* category and categoryName (subcategory and subcategoryName) null: the
\* List answers 200, and the post is counted in the page and in totalPages.
C4_UnresolvedReferenceKept ==
    (resp.op = "GET" /\ AskedPage >= 1 /\ AskedLimit >= 1) =>
        /\ resp.status = 200
        /\ \A i \in 1..Len(resp.posts) :
              LET d == StoredById(resp.posts[i]._id)
              IN  /\ Unresolved(d.category, Categories) =>
                        /\ resp.posts[i].category = Null
                        /\ resp.posts[i].categoryName = Null
                  /\ Unresolved(d.subcategory, Subcategories) =>
                        /\ resp.posts[i].subcategory = Null
                        /\ resp.posts[i].subcategoryName = Null
        /\ (AskedPage = 1 /\ AskedLimit >= Cardinality(Published)) =>
              \A d \in Published : \E i \in 1..Len(resp.posts) :
                  resp.posts[i]._id = d._id
        /\ Len(resp.posts) =
              LET from == (AskedPage - 1) * AskedLimit
                  upto == Min(AskedPage * AskedLimit, Cardinality(Published))
              IN  IF upto > from THEN upto - from ELSE 0
        /\ resp.totalPages * AskedLimit >= Cardinality(Published)

C4_Witness ==
    /\ Listed
    /\ \E i, j \in 1..Len(resp.posts) :
          /\ StoredById(resp.posts[i]._id).category = "c9"
          /\ StoredById(resp.posts[i]._id).subcategory = "s9"
          /\ resp.posts[i].categoryName = Null
          /\ resp.posts[i].subcategoryName = Null
          /\ StoredById(resp.posts[j]._id).category = Null
          /\ resp.posts[j].category = Null

----------------------------------------------------------------------------
(* Properties of the write handlers' refusals, under Spec.  Every step of *)
(* a behaviour handles one request and leaves it and its response in      *)
(* resp', so a step with resp'.op = "PUT" is the handling of the PUT      *)
(* resp'.req from the store `posts` to the store posts'.                   *)

Wrote == resp'.op \in {"POST", "PUT"}

FieldsMissing(form) ==
    \E f \in {"title", "content", "author", "category", "subcategory"} :
        form[f] \in {Null, ""}

\* the request's payload passes the handler's validation
PayloadValid ==
    IF resp'.op = "DELETE" THEN resp'.req.id # NoId
    ELSE ~FieldsMissing(resp'.req.form)

Answered(status, message) ==
    resp'.status = status /\ resp'.message = message

StoreUntouched == posts' = posts /\ nextId' = nextId

NoSessionGiven == ~resp'.req.session.present

UnknownUser ==
    resp'.req.session.present /\ resp'.req.session.userId \notin Users

Authorized ==
    resp'.req.session.present /\ resp'.req.session.userId \in Users

TargetExists(id) == \E d \in posts : d._id = id

ValidationFailed ==
    \/ (Wrote /\ Answered(400, MsgRequired))
    \/ (resp'.op = "DELETE" /\ Answered(400, MsgIdRequired))

\* C5: a Create with any of title, content, author, category, subcategory
\* missing or empty is answered 400 ValidationFailed and persists no Post.
C5_CreateValidation ==
    [][(resp'.op = "POST" /\ FieldsMissing(resp'.req.form)) =>
           (ValidationFailed /\ StoreUntouched)]_vars

C5_Witness ==
    /\ resp.op = "POST"
    /\ resp.status = 400
    /\ resp.message = MsgRequired
    /\ resp.req.session = SessionOf("u1")
    /\ resp.req.form.subcategory = ""
    /\ posts # {}

\* C6: a Create, Update or Delete whose payload passes validation is
\* answered 401 Unauthorized without a session and 404 UserNotFound with a
\* session whose user is not in the store; neither changes the Post store.
C6_AuthorizationGate ==
    [][(resp'.op \in {"POST", "PUT", "DELETE"} /\ PayloadValid) =>
           /\ NoSessionGiven =>
                 (Answered(401, MsgUnauthorized) /\ StoreUntouched)
           /\ UnknownUser =>
                 (Answered(404, MsgUserNotFound) /\ StoreUntouched)]_vars

C6_Witness ==
    /\ resp.op = "PUT"
    /\ resp.status = 404
    /\ resp.message = MsgUserNotFound
    /\ resp.req.session = SessionOf("u2")
    /\ \E d \in posts : d._id = resp.req.form._id

\* C7: the first failing check decides, in the order validation, session,
\* user, target: a write failing validation is ValidationFailed whatever
\* its session; an Update with valid fields and no session (an unknown
\* user) is Unauthorized (UserNotFound) whatever its target.
C7_CheckOrder ==
    [][/\ (resp'.op \in {"POST", "PUT", "DELETE"} /\ ~PayloadValid) =>
              ValidationFailed
       /\ (resp'.op = "PUT" /\ PayloadValid /\ NoSessionGiven
              /\ ~TargetExists(resp'.req.form._id)) =>
              Answered(401, MsgUnauthorized)
       /\ (resp'.op = "PUT" /\ PayloadValid /\ UnknownUser
              /\ ~TargetExists(resp'.req.form._id)) =>
              Answered(404, MsgUserNotFound)]_vars

C7_Witness ==
    /\ resp.op = "PUT"
    /\ resp.status = 401
    /\ ~resp.req.session.present
    /\ resp.req.form._id # NoId
    /\ ~\E d \in posts : d._id = resp.req.form._id
    /\ posts # {}

\* C8: an authorized Update with valid required fields is answered 400
\* InvalidTarget without a target identifier and 404 NotFound when the
\* identifier resolves to no Post; the Post store is unchanged in both.
C8_UpdateTarget ==
    [][(resp'.op = "PUT" /\ PayloadValid /\ Authorized) =>
           /\ resp'.req.form._id = NoId =>
                 (Answered(400, MsgInvalidPost) /\ StoreUntouched)
           /\ (resp'.req.form._id # NoId
                  /\ ~TargetExists(resp'.req.form._id)) =>
                 (Answered(404, MsgPostNotFound) /\ StoreUntouched)]_vars

C8_Witness ==
    /\ resp.op = "PUT"
    /\ resp.status = 404
    /\ resp.message = MsgPostNotFound
    /\ resp.req.session = SessionOf("u1")
    /\ posts # {}

----------------------------------------------------------------------------
(* Properties of a completed Update and Delete, under SpecEdit *)

Updated == resp'.op = "PUT" /\ resp'.status = 200

Before(id) == CHOOSE d \in posts : d._id = id

After(id) == CHOOSE d \in posts' : d._id = id

OthersUnchanged(id) ==
    /\ {d \in posts' : d._id # id} = {d \in posts : d._id # id}
    /\ Cardinality({d \in posts' : d._id = id}) = 1
    /\ nextId' = nextId

\* the fields an Update overwrites, other than tags
SuppliedAsIs(form, new) ==
    \A f \in {"title", "content", "excerpt", "author", "category",
              "subcategory", "metaTitle", "metaDescription", "metaKeywords",
              "imageCredit", "status"} : new[f] = form[f]

FrameKept(form, old, new) ==
    /\ new._id = old._id
    /\ new.slug = old.slug
    /\ new.publish_date = old.publish_date
    /\ new.updated_date = old.updated_date
    /\ ~form.featuredImage.isFile => new.featuredImage = old.featuredImage

\* the supplied tag values joined with "," ...
RECURSIVE CommaJoined(_, _)
CommaJoined(values, k) ==
    IF k > Len(values) THEN <<>>
    ELSE (IF k = 1 THEN <<>> ELSE <<",">>) \o values[k]
             \o CommaJoined(values, k + 1)

\* ... cut at every "," (a scan that closes a piece at each ",") ...
RECURSIVE CutAtCommas(_, _, _)
CutAtCommas(text, piece, done) ==
    IF text = <<>> THEN Append(done, piece)
    ELSE IF Head(text) = ","
         THEN CutAtCommas(Tail(text), <<>>, Append(done, piece))
         ELSE CutAtCommas(Tail(text), Append(piece, Head(text)), done)

\* ... and each piece without its leading and trailing blanks
Stripped(piece) ==
    LET inked == {i \in 1..Len(piece) : piece[i] # " "}
    IN  IF inked = {} THEN <<>>
        ELSE SubSeq(piece,
                    CHOOSE i \in inked : \A j \in inked : i <= j,
                    CHOOSE i \in inked : \A j \in inked : i >= j)

NormalizedTags(values) ==
    LET pieces == CutAtCommas(CommaJoined(values, 1), <<>>, <<>>)
    IN  [k \in 1..Len(pieces) |-> Stripped(pieces[k])]

C10_Delete ==
    [][/\ (resp'.op = "DELETE" /\ PayloadValid /\ Authorized) =>
              IF TargetExists(resp'.req.id)
              THEN /\ Answered(200, MsgDeleted)
                   /\ posts' = {d \in posts : d._id # resp'.req.id}
                   /\ Cardinality(posts') = Cardinality(posts) - 1
              ELSE /\ Answered(404, MsgPostNotFound)
                   /\ posts' = posts
       /\ \A id \in 1..(nextId - 1) :
              ~TargetExists(id) =>
                  /\ ~\E d \in posts' : d._id = id
                  /\ (resp'.op = "DELETE" /\ Authorized /\ resp'.req.id = id) =>
                        Answered(404, MsgPostNotFound)
                  /\ (resp'.op = "PUT" /\ PayloadValid /\ Authorized
                         /\ resp'.req.form._id = id) =>
                        Answered(404, MsgPostNotFound)
                  /\ resp'.op = "GET" =>
                        \A k \in 1..Len(resp'.posts) : resp'.posts[k]._id # id
      ]_vars

\* a second Delete of a Post deleted before, another Post still stored
C10_Witness ==
    /\ resp.op = "DELETE"
    /\ resp.status = 404
    /\ resp.message = MsgPostNotFound
    /\ resp.req.id < nextId
    /\ posts # {}

----------------------------------------------------------------------------
(* Properties of the upload and the persist steps, under SpecUpload.  A   *)
(* step of client c is a step that changes inflight[c].                    *)

\* the URL the bucket gives for one of its objects
URLOf(object) == <<"https://storage/">> \o object.key

EndedWith(c, message) ==
    inflight[c].pc = "done" /\ inflight[c].op # "idle"
        /\ inflight[c].message = message

\* client c takes a step of its request
Steps(c) == inflight'[c] # inflight[c]

HasFile(r) == r.op \in {"POST", "PUT"} /\ r.req.form.featuredImage.isFile

TargetOf(r) == IF r.op = "POST" THEN r.doc._id ELSE r.req.form._id

\* C11: in every reachable state, whatever uploads and saves have failed,
\* the featuredImage of every stored post is empty or is the URL of an
\* object that an upload has put into the bucket.
C11_FeaturedImageEmptyOrUploaded ==
    \A post \in posts :
        \/ post.featuredImage = NoImage
        \/ \E object \in assets : post.featuredImage = URLOf(object)

\* a stored post has an image while an upload of one request and the save
\* of another have failed
C11_Witness ==
    /\ \E post \in posts : post.featuredImage # NoImage
    /\ \E c \in Clients : EndedWith(c, "upload failed")
    /\ \E c \in Clients : EndedWith(c, "save failed")

----------------------------------------------------------------------------
(* Properties of the listed tags, under SpecList *)

\* the name of the tag a stored reference refers to
NameOfTag(ref) ==
    IF \E i \in 1..Len(Tags) : Tags[i]._id = ref
    THEN Tags[CHOOSE i \in 1..Len(Tags) : Tags[i]._id = ref].name
    ELSE Null

\* C12: for every listed post, the i-th entry of tagNames is the name of
\* the i-th tag reference the post stores, and the listed tags are those
\* references in that same order.
C12_TagNamesInStoredOrder ==
    Listed =>
        \A i \in 1..Len(resp.posts) :
            LET listed == resp.posts[i]
                stored == StoredById(listed._id).tags
            IN  /\ listed.tags = stored
                /\ Len(listed.tagNames) = Len(stored)
                /\ \A j \in 1..Len(stored) :
                       listed.tagNames[j] = NameOfTag(stored[j])

----------------------------------------------------------------------------
(* Properties of the stored tags, under SpecEdit *)

Created == resp'.op = "POST" /\ resp'.status = 201

CommaFree(values) ==
    \A k \in 1..Len(values) : \A i \in 1..Len(values[k]) : values[k][i] # ","

\* the document a successful Create or Update has just stored
JustStored ==
    IF resp'.op = "PUT" THEN After(resp'.req.form._id)
    ELSE CHOOSE d \in posts' : d \notin posts

\* C13: a Create or Update given zero or more tag values, none holding a
\* ",", stores as many tags as were given, in the order given, each with
\* its leading and trailing blanks removed; given none it stores none.
C13_TagsOneForOne ==
    [][(Created \/ Updated) /\ CommaFree(resp'.req.form.tags) =>
          JustStored.tags =
              [k \in 1..Len(resp'.req.form.tags) |->
                  Stripped(resp'.req.form.tags[k])]]_vars

----------------------------------------------------------------------------
(* Properties of the order of upload and persist, under SpecUpload *)

\* a request with a file comes to its persist step only from its upload,
\* with the uploaded object in the bucket
UploadBeforePersist(c) ==
    Steps(c) /\ inflight'[c].pc = "persist" /\ HasFile(inflight'[c]) =>
        /\ inflight[c].pc = "upload"
        /\ \E object \in assets' :
              /\ object.bytes = inflight[c].req.form.featuredImage.bytes
              /\ inflight'[c].doc.featuredImage = URLOf(object)

\* only the persist step of a Create or Update writes the store
PersistWrites(c) ==
    Steps(c) /\ inflight'[c].op \in {"POST", "PUT"} /\ posts' # posts =>
        inflight[c].pc = "persist"

\* an upload that fails ends the request with 500, the store as it was
FailedUploadEnds(c) ==
    Steps(c) /\ inflight[c].pc = "upload" /\ inflight'[c].pc = "done" =>
        /\ inflight'[c].status = 500
        /\ posts' = posts
        /\ inflight[c].op = "POST" =>
              ~\E d \in posts' : d._id = inflight[c].doc._id
        /\ inflight[c].op = "PUT" =>
              \A d \in posts' : d._id = TargetOf(inflight[c]) => d \in posts

\* C14: in Create and Update the upload comes before the persist; when the
\* upload fails the request ends with 500 and never persists: no Post of a
\* Create exists, the target of an Update is stored as it was.
C14_UploadThenPersist ==
    [][\A c \in Clients :
          /\ UploadBeforePersist(c)
          /\ PersistWrites(c)
          /\ FailedUploadEnds(c)]_vars

\* an Update has ended on a failed upload and its target is stored
C14_Witness ==
    \E c \in Clients :
        /\ EndedWith(c, "upload failed")
        /\ inflight[c].op = "PUT"
        /\ inflight[c].status = 500
        /\ \E d \in posts : d._id = inflight[c].req.form._id

----------------------------------------------------------------------------
(* Properties of the key of an Update's upload, under SpecUpload *)

\* the key made of the id of the post and the extension of the file only
KeyOfPost(id, file) ==
    <<"the-educative/blog/post-", id, ".", file.type[Len(file.type)]>>

UpdateUploads(c) ==
    /\ Steps(c)
    /\ inflight[c].op = "PUT"
    /\ inflight[c].pc = "upload"
    /\ inflight'[c].pc = "persist"

UpdatePersists(c) ==
    /\ Steps(c)
    /\ inflight[c].op = "PUT"
    /\ inflight[c].pc = "persist"
    /\ inflight'[c].status = 200

\* C15: the upload of an Update goes to the key made of the post's id and
\* the file's extension: afterwards the bucket holds exactly one object at
\* that key, with the bytes just uploaded, and every other object as it
\* was; the Update then stores the URL of that key as featuredImage.
C15_UpdateUploadKey ==
    [][\A c \in Clients :
          LET form == inflight[c].req.form
              key == KeyOfPost(form._id, form.featuredImage)
              atKey == [key |-> key, bytes |-> form.featuredImage.bytes]
          IN  /\ UpdateUploads(c) =>
                    /\ {a \in assets' : a.key = key} = {atKey}
                    /\ {a \in assets' : a.key # key}
                           = {a \in assets : a.key # key}
                    /\ inflight'[c].doc.featuredImage = URLOf(atKey)
              /\ UpdatePersists(c) /\ HasFile(inflight[c]) =>
                    \E d \in posts' :
                        /\ d._id = form._id
                        /\ d.featuredImage = URLOf(atKey)]_vars

\* both clients have updated the same post with png files of different
\* content, and the bucket holds one object at the key of that post
C15_Witness ==
    /\ \A c \in Clients :
          /\ EndedWith(c, MsgUpdated)
          /\ inflight[c].req.form._id = 1
    /\ \E c \in Clients : inflight[c].req.form.featuredImage = PngFile
    /\ \E c \in Clients : inflight[c].req.form.featuredImage = PngAgain
    /\ Cardinality({a \in assets : a.key = KeyOfPost(1, PngFile)}) = 1

----------------------------------------------------------------------------
(* Properties of concurrent Updates and Deletes, under SpecRace *)

OverwrittenFields ==
    {"title", "content", "excerpt", "author", "category", "subcategory",
     "tags", "metaTitle", "metaDescription", "metaKeywords", "imageCredit",
     "status"}

\* what a request supplies for a field an Update overwrites
SuppliedFor(form, f) ==
    IF f = "tags" THEN NormalizedTags(form.tags) ELSE form[f]

\* the other client's Update of the same post has already persisted
OtherPersisted(c) ==
    \E other \in Clients \ {c} :
        /\ EndedWith(other, MsgUpdated)
        /\ inflight[other].req.form._id = inflight[c].req.form._id

----------------------------------------------------------------------------
(* Properties of a refused request's effects, under Spec *)

RefusalAnswers ==
    {<<400, MsgRequired>>, <<400, MsgIdRequired>>, <<401, MsgUnauthorized>>,
     <<404, MsgUserNotFound>>, <<400, MsgInvalidPost>>,
     <<404, MsgPostNotFound>>}

Changes == resp'.op \in {"POST", "PUT", "DELETE"}

RefusedNow == Changes /\ <<resp'.status, resp'.message>> \in RefusalAnswers

\* the request fails one of the checks of its handler
FailsACheck ==
    \/ ~PayloadValid
    \/ ~Authorized
    \/ resp'.op = "PUT" /\ ~TargetExists(resp'.req.form._id)
    \/ resp'.op = "DELETE" /\ ~TargetExists(resp'.req.id)

\* C17: a request that fails validation, authorization or the lookup of
\* its target is answered ValidationFailed, Unauthorized, UserNotFound,
\* InvalidTarget or NotFound, and a request so answered has uploaded
\* nothing and written nothing: the bucket and the store are as they
\* were, also when the request carried a file.
C17_RefusedLeavesStores ==
    [][Changes =>
          /\ FailsACheck => RefusedNow
          /\ RefusedNow =>
                (posts' = posts /\ assets' = assets /\ nextId' = nextId)]_vars

\* an Update carrying a file was refused for its unknown user while the
\* store holds its target
C17_Witness ==
    /\ resp.op = "PUT"
    /\ resp.status = 404
    /\ resp.message = MsgUserNotFound
    /\ resp.req.form.featuredImage.isFile
    /\ \E d \in posts : d._id = resp.req.form._id

----------------------------------------------------------------------------
(* Properties of a Create whose save fails, under SpecUpload *)

\* the save of a Create that has uploaded its file fails
CreateSaveFails(c) ==
    /\ Steps(c)
    /\ inflight[c].op = "POST"
    /\ inflight[c].pc = "persist"
    /\ HasFile(inflight[c])
    /\ inflight'[c].message = "save failed"

\* an object of the bucket that no stored post refers to
Orphan(object) == \A d \in posts : d.featuredImage # URLOf(object)

\* C18: a Create whose upload has succeeded and whose persist fails is
\* answered with a failure, stores no Post, and nothing removes what it
\* uploaded: the object is still in the bucket.
C18_NoCompensation ==
    [][\A c \in Clients :
          CreateSaveFails(c) =>
              /\ inflight'[c].status \in {400, 500}
              /\ posts' = posts
              /\ ~\E d \in posts' : d._id = inflight[c].doc._id
              /\ assets' = assets
              /\ \E object \in assets' :
                    /\ object.bytes = inflight[c].req.form.featuredImage.bytes
                    /\ inflight[c].doc.featuredImage = URLOf(object)]_vars

\* a Create has ended on a failed save and the bucket holds an object
\* that no stored post refers to
C18_Witness ==
    /\ \E c \in Clients :
          /\ EndedWith(c, "save failed")
          /\ inflight[c].op = "POST"
          /\ inflight[c].req.form.featuredImage.isFile
    /\ \E object \in assets : Orphan(object)

----------------------------------------------------------------------------
(* Properties of an Update whose target is deleted under it, under        *)
(* SpecRace.  An Update is at its persist step only after its lookup has   *)
(* found the target, so a target missing at that step has been deleted in *)
(* between.                                                               *)

Stored(id) == \E d \in posts : d._id = id

\* the persist step of an Update whose target is no longer stored
PersistsAfterDelete(c) ==
    /\ Steps(c)
    /\ inflight[c].op = "PUT"
    /\ inflight[c].pc = "persist"
    /\ ~Stored(inflight[c].req.form._id)

\* C19: the persist of an Update whose target a Delete has removed since
\* the Update's lookup does not store the post again: the store is as the
\* Delete left it.
C19_DeletedStaysDeleted ==
    [][\A c \in Clients :
          PersistsAfterDelete(c) =>
              /\ ~\E d \in posts' : d._id = inflight[c].req.form._id
              /\ posts' = posts]_vars

\* an Update whose lookup found post 1 has run its save() after the other
\* client's Delete of post 1, and post 1 is not stored
C19_Witness ==
    /\ \E c \in Clients :
          /\ EndedWith(c, "save failed")
          /\ inflight[c].op = "PUT"
          /\ inflight[c].status = 400
          /\ inflight[c].req.form._id = 1
    /\ \E c \in Clients :
          /\ EndedWith(c, MsgDeleted)
          /\ inflight[c].req.id = 1
    /\ ~Stored(1)

----------------------------------------------------------------------------
(* Properties of the pages of one store, under SpecList.  Every page is   *)
(* asked for by a request of its own, so each page is any of the answers  *)
(* the aggregation may give for it over the store as it is.               *)

\* the answers GET may give for a page of the store as it is
AnswersFor(page, limit) == Aggregate(posts, (page - 1) * limit, limit)

IdsOf(answer) == {answer[i]._id : i \in 1..Len(answer)}

LastPage(limit) == Ceil(Cardinality(Published), limit)

\* one answer for each of the pages 1..totalPages
Pagings(limit) ==
    LET pages == 1..LastPage(limit)
        answers == UNION {AnswersFor(page, limit) : page \in pages}
    IN  {paging \in [pages -> answers] :
            \A page \in pages : paging[page] \in AnswersFor(page, limit)}

\* C20: for the store as it is and any limit of at least 1, the pages
\* 1..totalPages partition the published posts: no post is on two pages,
\* none is on no page, whatever the publish_dates; every later page is
\* empty.
C20_PagesPartitionPublished ==
    \A limit \in 1..MaxLimit :
        /\ \A paging \in Pagings(limit) :
              /\ \A p, q \in DOMAIN paging :
                    p # q => IdsOf(paging[p]) \cap IdsOf(paging[q]) = {}
              /\ UNION {IdsOf(paging[p]) : p \in DOMAIN paging}
                    = {d._id : d \in Published}
        /\ AnswersFor(LastPage(limit) + 1, limit) = {<<>>}

============================================================================
